---- MODULE Spec2Model ----
(***************************************************************************)
(* A model of the PubMed paper fetcher notebook: mkquery, getXmlFromURL,   *)
(* fetch_paper_ids, fetch_paper_details, check_academic, process_papers    *)
(* and the driver cell that chains them.                                   *)
(*                                                                         *)
(* A Python str is a sequence of one-character strings.  Python's None is  *)
(* the value None below, which is no sequence of characters.               *)
(***************************************************************************)
EXTENDS Naturals, Sequences, FiniteSets

VARIABLES
    pc,                    \* position of the running cell
    affiliation,           \* check_academic: its argument
    is_academic,           \* check_academic: the value returned
    query,                 \* fetch_paper_ids: the query text
    max_results,           \* fetch_paper_ids: max_results
    url,                   \* the URL mkquery returned
    article,               \* a PubmedArticle element of a fetch response
    paper,                 \* the dict fetch_paper_details builds from it
    batch_size,            \* fetch_paper_details: batch_size
    requests,              \* the URLs passed to requests.get, in order
    srch_resp,             \* the response to the search request
    ftch_resp,             \* the response to the fetch request
    error,                 \* the exception that ended the run, or "none"
    ids,                   \* fetch_paper_ids: the values returned
    query_key,
    web_env,
    papers,                \* process_papers: its argument
    rows,                  \* process_papers: rows
    non_academic_authors,  \* process_papers: the lists of the last iteration
    affiliations,
    df                     \* the DataFrame process_papers returned

classifierVars == <<affiliation, is_academic>>
inputVars == <<query, max_results, batch_size>>
articleVars == <<article, paper>>
requestVars == <<requests, srch_resp, ftch_resp, error, ids, query_key, web_env>>
reportVars == <<rows, non_academic_authors, affiliations, df>>

vars == <<pc, classifierVars, inputVars, url, articleVars, requestVars,
          papers, reportVars>>

\* ------------------------------------------------------------------ values

None == <<"<None>">>

RECURSIVE join(_, _)
\* sep.join(parts)
join(sep, parts) ==
    IF parts = <<>> THEN <<>>
    ELSE IF Len(parts) = 1 THEN Head(parts)
    ELSE Head(parts) \o sep \o join(sep, Tail(parts))

\* f"{v}"
format(v) == IF v = None THEN <<"N", "o", "n", "e">> ELSE v

\* bool(v) of a str or None
truthy(v) == v # None /\ v # <<>>

digits == <<"0", "1", "2", "3", "4", "5", "6", "7", "8", "9">>

RECURSIVE str(_)
\* str(n) of an int n >= 0
str(n) ==
    IF n < 10 THEN <<digits[n + 1]>>
    ELSE str(n \div 10) \o <<digits[(n % 10) + 1]>>

\* ------------------------------------------------------- check_academic

\* string.punctuation, less the grave accent (no TLA+ string can hold it; no
\* input of the model contains it)
punctuation ==
    {"!", "\"", "#", "$", "%", "&", "'", "(", ")", "*", "+", ",", "-", ".",
     "/", ":", ";", "<", "=", ">", "?", "@", "[", "\\", "]", "^", "_",
     "{", "|", "}", "~"}

\* the characters str.split() treats as separators
whitespace == {" ", "\t", "\n", "\r", "\f"}

ascii_uppercase ==
    <<"A", "B", "C", "D", "E", "F", "G", "H", "I", "J", "K", "L", "M",
      "N", "O", "P", "Q", "R", "S", "T", "U", "V", "W", "X", "Y", "Z">>

ascii_lowercase ==
    <<"a", "b", "c", "d", "e", "f", "g", "h", "i", "j", "k", "l", "m",
      "n", "o", "p", "q", "r", "s", "t", "u", "v", "w", "x", "y", "z">>

academic_keywords ==
    { <<"s", "c", "h", "o", "o", "l">>,
      <<"u", "n", "i", "v", "e", "r", "s", "i", "t", "y">>,
      <<"c", "o", "l", "l", "e", "g", "e">>,
      <<"i", "n", "s", "t", "i", "t", "u", "t", "e">>,
      <<"r", "e", "s", "e", "a", "r", "c", "h">>,
      <<"l", "a", "b">> }

\* s.translate(str.maketrans('', '', string.punctuation))
translate(s) == SelectSeq(s, LAMBDA c : c \notin punctuation)

lower_char(c) ==
    IF \E i \in 1..Len(ascii_uppercase) : ascii_uppercase[i] = c
    THEN ascii_lowercase[CHOOSE i \in 1..Len(ascii_uppercase) : ascii_uppercase[i] = c]
    ELSE c

lower_keep(s) == s

\* s.lower()
lower(s) == [i \in 1..Len(s) |-> lower_char(s[i])]

RECURSIVE split_from(_, _, _)
\* the scan of str.split(): cur is the word being read, s what is left
split_from(s, cur, acc) ==
    IF s = <<>>
    THEN IF cur = <<>> THEN acc ELSE Append(acc, cur)
    ELSE IF Head(s) \in whitespace
         THEN split_from(Tail(s), <<>>, IF cur = <<>> THEN acc ELSE Append(acc, cur))
         ELSE split_from(Tail(s), Append(cur, Head(s)), acc)

\* s.split()
split(s) == split_from(s, <<>>, <<>>)

\* set(list)
set(l) == {l[i] : i \in 1..Len(l)}

contains(s, w) ==
    \E i \in 1..Len(s) : i + Len(w) - 1 <= Len(s) /\ SubSeq(s, i, i + Len(w) - 1) = w

check_academic_substring(s) ==
    \E k \in academic_keywords : contains(lower(translate(s)), k)

check_academic(s) ==
    Cardinality(academic_keywords \cap set(split(lower(translate(s))))) > 0

RECURSIVE lstrip(_)
lstrip(s) ==
    IF s # <<>> /\ Head(s) \in whitespace THEN lstrip(Tail(s)) ELSE s

RECURSIVE rstrip(_)
rstrip(s) ==
    IF s # <<>> /\ s[Len(s)] \in whitespace
    THEN rstrip(SubSeq(s, 1, Len(s) - 1))
    ELSE s

\* s.strip()
strip(s) == rstrip(lstrip(s))

\* --------------------------------------------------------------- mkquery

BASEURL_SRCH ==
    <<"h", "t", "t", "p", "s", ":", "/", "/", "e", "u", "t", "i", "l", "s",
      ".", "n", "c", "b", "i", ".", "n", "l", "m", ".", "n", "i", "h", ".",
      "g", "o", "v", "/", "e", "n", "t", "r", "e", "z", "/", "e", "u", "t",
      "i", "l", "s", "/", "e", "s", "e", "a", "r", "c", "h", ".", "f", "c",
      "g", "i">>

BASEURL_FTCH ==
    <<"h", "t", "t", "p", "s", ":", "/", "/", "e", "u", "t", "i", "l", "s",
      ".", "n", "c", "b", "i", ".", "n", "l", "m", ".", "n", "i", "h", ".",
      "g", "o", "v", "/", "e", "n", "t", "r", "e", "z", "/", "e", "u", "t",
      "i", "l", "s", "/", "e", "f", "e", "t", "c", "h", ".", "f", "c", "g",
      "i">>

\* a dict is the sequence of its (key, value) pairs in insertion order
mkquery_item(kv) == format(kv[1]) \o <<"=">> \o format(kv[2])

mkquery(base_url, params) ==
    base_url \o <<"?">>
    \o join(<<"&">>, [i \in 1..Len(params) |-> mkquery_item(params[i])])

DefaultMaxResults == 100

DefaultBatchSize == 10

\* params of fetch_paper_ids
search_params(q, n) ==
    << <<<<"d", "b">>, <<"p", "u", "b", "m", "e", "d">>>>,
       <<<<"t", "e", "r", "m">>, q>>,
       <<<<"r", "e", "t", "m", "a", "x">>, str(n)>>,
       <<<<"u", "s", "e", "h", "i", "s", "t", "o", "r", "y">>, <<"y">>>> >>

fetch_params_no_retmax(qk, we, n) ==
    << <<<<"d", "b">>, <<"p", "u", "b", "m", "e", "d">>>>,
       <<<<"q", "u", "e", "r", "y", "_", "k", "e", "y">>, qk>>,
       <<<<"W", "e", "b", "E", "n", "v">>, we>>,
       <<<<"r", "e", "t", "m", "o", "d", "e">>, <<"x", "m", "l">>>> >>

\* params of fetch_paper_details
fetch_params(qk, we, n) ==
    << <<<<"d", "b">>, <<"p", "u", "b", "m", "e", "d">>>>,
       <<<<"q", "u", "e", "r", "y", "_", "k", "e", "y">>, qk>>,
       <<<<"W", "e", "b", "E", "n", "v">>, we>>,
       <<<<"r", "e", "t", "m", "a", "x">>, str(n)>>,
       <<<<"r", "e", "t", "m", "o", "d", "e">>, <<"x", "m", "l">>>> >>

\* ------------------------------------------------------------ responses
\* A response is [connected, status_code, wellformed, root]: connected is
\* false when requests.get raised instead of returning; wellformed tells
\* whether ET.fromstring parses the body, and root is the parsed document.
\* An element list holds the .text (None for an element without text) of the
\* elements a path matches, in document order.

\* response.raise_for_status() raises
raise_for_status(r) == r.status_code >= 400 /\ r.status_code < 600

getXmlFromURL_unchecked(r) ==
    IF ~r.connected THEN "ConnectionError"
    ELSE IF ~r.wellformed THEN "ParseError"
    ELSE "none"

\* getXmlFromURL: the exception it raises, or "none"
getXmlFromURL(r) ==
    IF ~r.connected THEN "ConnectionError"
    ELSE IF raise_for_status(r) THEN "HTTPError"
    ELSE IF ~r.wellformed THEN "ParseError"
    ELSE "none"

\* element.findtext(path, default)
findtext_default(elems, default) ==
    IF elems = <<>> THEN default
    ELSE IF Head(elems) = None THEN <<>>
    ELSE Head(elems)

\* element.findtext(path)
findtext(elems) == findtext_default(elems, None)

\* lines 112-115 of fetch_paper_ids
fetch_paper_ids(root) ==
    [ids |-> root.Id,
     query_key |-> findtext(root.QueryKey),
     web_env |-> findtext(root.WebEnv)]

\* ---------------------------------------------------- fetch_paper_details

author_name(author) ==
    strip(findtext_default(author.ForeName, <<>>) \o <<" ">>
          \o findtext_default(author.LastName, <<>>))

author_affiliation(author) == findtext(author.Affiliation)

RECURSIVE author_names(_)
\* paper['Authors'] after the loop over the Author elements
author_names(authors) ==
    IF authors = <<>> THEN <<>>
    ELSE (IF truthy(author_name(Head(authors)))
             /\ truthy(author_affiliation(Head(authors)))
          THEN <<author_name(Head(authors))>> ELSE <<>>)
         \o author_names(Tail(authors))

RECURSIVE author_affiliations(_)
\* paper['Affiliations'] after the loop over the Author elements
author_affiliations(authors) ==
    IF authors = <<>> THEN <<>>
    ELSE (IF truthy(author_name(Head(authors)))
             /\ truthy(author_affiliation(Head(authors)))
          THEN <<author_affiliation(Head(authors))>> ELSE <<>>)
         \o author_affiliations(Tail(authors))

\* one iteration of the loop over root.iter('PubmedArticle')
parse_article(a) ==
    [PubmedID |-> findtext(a.PMID),
     Title |-> findtext(a.ArticleTitle),
     PublicationDate |-> findtext(a.Year),
     Authors |-> author_names(a.Author),
     Affiliations |-> author_affiliations(a.Author)]

\* lines 143-160 of fetch_paper_details
fetch_paper_details(root, n) ==
    [i \in 1..Len(root) |-> parse_article(root[i])]

\* --------------------------------------------------------- process_papers

\* list(zip(a, b))
zip(a, b) ==
    [i \in 1..(IF Len(a) < Len(b) THEN Len(a) ELSE Len(b)) |-> <<a[i], b[i]>>]

RECURSIVE collect_authors_academic(_)
collect_authors_academic(pairs) ==
    IF pairs = <<>> THEN <<>>
    ELSE (IF check_academic(Head(pairs)[2]) THEN <<Head(pairs)[1]>> ELSE <<>>)
         \o collect_authors_academic(Tail(pairs))

RECURSIVE collect_authors(_)
\* non_academic_authors after the loop over the pairs
collect_authors(pairs) ==
    IF pairs = <<>> THEN <<>>
    ELSE (IF ~check_academic(Head(pairs)[2]) THEN <<Head(pairs)[1]>> ELSE <<>>)
         \o collect_authors(Tail(pairs))

RECURSIVE collect_affiliations(_)
\* affiliations after the loop over the pairs
collect_affiliations(pairs) ==
    IF pairs = <<>> THEN <<>>
    ELSE (IF ~check_academic(Head(pairs)[2]) THEN <<Head(pairs)[2]>> ELSE <<>>)
         \o collect_affiliations(Tail(pairs))

make_row_title_as_id(p, authors, affs) ==
    [PubmedID |-> p.Title,
     Title |-> p.Title,
     Publication_Date |-> p.PublicationDate,
     Non_academic_Authors |-> join(<<";", " ">>, authors),
     Company_Affiliations |-> join(<<";", " ">>, affs)]

\* the dict appended to rows
make_row(p, authors, affs) ==
    [PubmedID |-> p.PubmedID,
     Title |-> p.Title,
     Publication_Date |-> p.PublicationDate,
     Non_academic_Authors |-> join(<<";", " ">>, authors),
     Company_Affiliations |-> join(<<";", " ">>, affs)]

\* one iteration of the loop over papers
ProcessPaper ==
    /\ pc = "process"
    /\ Len(rows) < Len(papers)
    /\ LET p == papers[Len(rows) + 1]
           pairs == zip(p.Authors, p.Affiliations)
       IN /\ non_academic_authors' = collect_authors(pairs)
          /\ affiliations' = collect_affiliations(pairs)
          /\ rows' = Append(rows, make_row(p, collect_authors(pairs),
                                           collect_affiliations(pairs)))
    /\ UNCHANGED <<pc, classifierVars, inputVars, url, articleVars,
                   requestVars, papers, df>>

\* return pd.DataFrame(rows)
ReturnDataFrame ==
    /\ pc = "process"
    /\ Len(rows) = Len(papers)
    /\ df' = rows
    /\ pc' = "done"
    /\ UNCHANGED <<classifierVars, inputVars, url, articleVars, requestVars,
                   papers, rows, non_academic_authors, affiliations>>

\* ------------------------------------------------------ the driver cell

NoSearchRoot == [Id |-> <<>>, QueryKey |-> <<>>, WebEnv |-> <<>>]

NoResponse(root) ==
    [connected |-> FALSE, status_code |-> 0, wellformed |-> FALSE, root |-> root]

\* ids, query_key, web_env = fetch_paper_ids(query), given the response r
FetchPaperIdsOn(r) ==
    /\ pc = "start"
    /\ requests' = Append(requests,
                          mkquery(BASEURL_SRCH, search_params(query, max_results)))
    /\ srch_resp' = r
    /\ error' = getXmlFromURL(r)
    /\ IF getXmlFromURL(r) = "none"
       THEN /\ ids' = fetch_paper_ids(r.root).ids
            /\ query_key' = fetch_paper_ids(r.root).query_key
            /\ web_env' = fetch_paper_ids(r.root).web_env
            /\ pc' = "searched"
       ELSE /\ UNCHANGED <<ids, query_key, web_env>>
            /\ pc' = "failed"
    /\ UNCHANGED <<classifierVars, inputVars, url, articleVars, ftch_resp,
                   papers, reportVars>>

\* papers = fetch_paper_details(query_key, web_env), given the response r
FetchPaperDetailsOn(r) ==
    /\ pc = "searched"
    /\ requests' = Append(requests,
                          mkquery(BASEURL_FTCH,
                                  fetch_params(query_key, web_env, batch_size)))
    /\ ftch_resp' = r
    /\ error' = getXmlFromURL(r)
    /\ IF getXmlFromURL(r) = "none"
       THEN /\ papers' = fetch_paper_details(r.root, batch_size)
            /\ pc' = "process"
       ELSE /\ UNCHANGED papers
            /\ pc' = "failed"
    /\ UNCHANGED <<classifierVars, inputVars, url, articleVars, srch_resp,
                   ids, query_key, web_env, reportVars>>

\* ---------------------------------------------- the classifier's inputs


\* how many pieces an affiliation of the classifier's check is built from
MaxPieces == 3

Pieces ==
    academic_keywords \cup
    { <<"L", "a", "b">>,
      <<"U", "n", "i", "v", "e", "r", "s", "i", "t", "y">>,
      <<"o", "r", "a", "t", "o", "r", "y">>,
      <<"o", "f">>,
      <<",">>, <<".">>, <<" ">>, <<"\t">> }

EmptyString == <<>>

LaboratoryOfGenomics ==
    <<"L", "a", "b", "o", "r", "a", "t", "o", "r", "y", " ", "o", "f", " ",
      "G", "e", "n", "o", "m", "i", "c", "s">>

DeptOfBiologyLab4 ==
    <<"D", "e", "p", "t", ".", " ", "o", "f", " ", "B", "i", "o", "l", "o",
      "g", "y", ",", " ", "L", "a", "b", " ", "4">>

PfizerInc == <<"P", "f", "i", "z", "e", "r", " ", "I", "n", "c", ".">>

MITUniversity ==
    <<"M", "I", "T", " ", "U", "n", "i", "v", "e", "r", "s", "i", "t", "y">>

ClassifierInputs ==
    { join(<<>>, ps) : ps \in UNION { [1..n -> Pieces] : n \in 0..MaxPieces } }
    \cup { EmptyString, LaboratoryOfGenomics, DeptOfBiologyLab4, PfizerInc,
           MITUniversity }

\* ------------------------------------------------------------ the inputs

MachineLearning == <<"m", "a", "c", "h", "i", "n", "e", " ", "l", "e", "a",
      "r", "n", "i", "n", "g">>

JaneDoe == <<"J", "a", "n", "e", " ", "D", "o", "e">>

JohnRoe == <<"J", "o", "h", "n", " ", "R", "o", "e">>

AnnLee == <<"A", "n", "n", " ", "L", "e", "e">>

SomeTitle == <<"T", "i", "t", "l", "e">>

\* how many characters a query of the URL check has
MaxQueryLen == 3

QueryAlphabet == {"a", " ", "&", "=", "#"}

Queries ==
    UNION { [1..n -> QueryAlphabet] : n \in 0..MaxQueryLen } \cup {MachineLearning}

\* how many Author elements an article of the article check has
MaxAuthorElems == 2

AuthorElems ==
    [ForeName : {<<>>, <<<<"J", "a", "n", "e">>>>},
     LastName : {<<>>, <<<<"D", "o", "e">>>>},
     Affiliation : {<<>>, <<None>>, <<<<" ">>>>, <<PfizerInc>>}]

Articles ==
    [PMID : {<<>>, <<None>>, <<<<"1">>>>},
     ArticleTitle : {<<>>, <<SomeTitle>>},
     Year : {<<>>, <<<<"2", "0", "2", "4">>>>, <<<<"2", "0", "2",
      "4">>, <<"2", "0", "2", "5">>>>},
     Author : UNION { [1..n -> AuthorElems] : n \in 0..MaxAuthorElems }]

NoArticle == [PMID |-> <<>>, ArticleTitle |-> <<>>, Year |-> <<>>, Author |-> <<>>]

\* how many Id elements a search response has
MaxIds == 2

\* how many PubmedArticle elements a fetch response has
MaxArticles == 2

StatusCodes == {200, 300, 404, 500}

Responses(roots, noroot) ==
    {NoResponse(noroot)}
    \cup { [connected |-> TRUE, status_code |-> s, wellformed |-> FALSE,
            root |-> noroot] : s \in StatusCodes }
    \cup { [connected |-> TRUE, status_code |-> s, wellformed |-> TRUE,
            root |-> r] : s \in StatusCodes, r \in roots }

SearchRoots ==
    [Id : { [i \in 1..n |-> str(i)] : n \in 0..MaxIds },
     QueryKey : {<<>>, <<None>>, <<<<"1">>>>},
     WebEnv : {<<>>, <<None>>, <<<<"M", "C", "I", "D">>>>}]

SearchResponses == Responses(SearchRoots, NoSearchRoot)

IndustryAndAcademicArticle ==
    [PMID |-> <<<<"1">>>>, ArticleTitle |-> <<SomeTitle>>,
     Year |-> <<<<"2", "0", "2", "4">>, <<"2", "0", "2", "5">>>>,
     Author |-> << [ForeName |-> <<<<"J", "a", "n",
      "e">>>>, LastName |-> <<<<"D", "o", "e">>>>,
                    Affiliation |-> <<PfizerInc>>],
                   [ForeName |-> <<<<"J", "o", "h",
      "n">>>>, LastName |-> <<<<"R", "o", "e">>>>,
                    Affiliation |-> <<MITUniversity>>] >>]

AcademicArticle ==
    [PMID |-> <<<<"2">>>>, ArticleTitle |-> <<SomeTitle>>, Year |-> <<<<"2",
      "0", "2", "5">>>>,
     Author |-> << [ForeName |-> <<<<"J", "o", "h",
      "n">>>>, LastName |-> <<<<"R", "o", "e">>>>,
                    Affiliation |-> <<MITUniversity>>] >>]

BlankAffiliationArticle ==
    [PMID |-> <<<<"3">>>>, ArticleTitle |-> <<>>, Year |-> <<>>,
     Author |-> << [ForeName |-> <<>>, LastName |-> <<<<"D", "o", "e">>>>,
                    Affiliation |-> <<<<" ">>>>] >>]

FetchRoots ==
    UNION { [1..n -> {IndustryAndAcademicArticle, AcademicArticle,
                      BlankAffiliationArticle, NoArticle}] : n \in 0..MaxArticles }

FetchResponses == Responses(FetchRoots, <<>>)

\* how many paper records process_papers is given
MaxPapers == 2

\* how many authors (none or this many) and affiliations (up to this many) a
\* generated paper record has
MaxAuthors == 1

AuthorNames == <<JaneDoe, JohnRoe, AnnLee>>

PaperRecords ==
    [PubmedID : {None, <<"1">>},
     Title : {SomeTitle},
     PublicationDate : {<<"2", "0", "2", "4">>},
     Authors : { [i \in 1..n |-> AuthorNames[((i - 1) % 3) + 1]] : n \in {0, MaxAuthors} },
     Affiliations : UNION { [1..n -> {PfizerInc, MITUniversity}] : n \in 0..MaxAuthors }]

JaneAndJohnPaper ==
    [PubmedID |-> <<"1">>, Title |-> SomeTitle, PublicationDate |-> <<"2",
      "0", "2", "4">>,
     Authors |-> <<JaneDoe, JohnRoe>>,
     Affiliations |-> <<PfizerInc, MITUniversity>>]

ThreeAuthorsPaper ==
    [PubmedID |-> <<"2">>, Title |-> SomeTitle, PublicationDate |-> None,
     Authors |-> <<JaneDoe, JohnRoe, AnnLee>>,
     Affiliations |-> <<PfizerInc, MITUniversity, LaboratoryOfGenomics>>]

ReportInputs ==
    UNION { [1..n -> PaperRecords] : n \in 0..MaxPapers }
    \cup { <<JaneAndJohnPaper>>, <<ThreeAuthorsPaper>>,
           <<ThreeAuthorsPaper, JaneAndJohnPaper>> }

\* the driver cell's call of fetch_paper_ids, over the responses of the host
FetchPaperIds == \E r \in SearchResponses : FetchPaperIdsOn(r)

\* the driver cell's call of fetch_paper_details
FetchPaperDetails == \E r \in FetchResponses : FetchPaperDetailsOn(r)

IdleClassifier == affiliation = <<>> /\ is_academic = FALSE

IdleArticle == article = NoArticle /\ paper = parse_article(NoArticle)

IdleRequests ==
    /\ requests = <<>>
    /\ srch_resp = NoResponse(NoSearchRoot)
    /\ ftch_resp = NoResponse(<<>>)
    /\ error = "none"
    /\ ids = <<>>
    /\ query_key = None
    /\ web_env = None

IdleReport ==
    /\ rows = <<>>
    /\ non_academic_authors = <<>>
    /\ affiliations = <<>>
    /\ df = <<>>

Init ==
    /\ pc = "start"
    /\ query = MachineLearning
    /\ max_results = DefaultMaxResults
    /\ batch_size \in {1, DefaultBatchSize}
    /\ url = <<>>
    /\ papers = <<>>
    /\ IdleClassifier /\ IdleArticle /\ IdleRequests /\ IdleReport

Next ==
    \/ FetchPaperIds
    \/ FetchPaperDetails
    \/ ProcessPaper
    \/ ReturnDataFrame

Spec == Init /\ [][Next]_vars

\* ------------------------------------------------ process_papers on its own

InitReport ==
    /\ pc = "process"
    /\ papers \in ReportInputs
    /\ query = <<>>
    /\ max_results = DefaultMaxResults
    /\ batch_size = DefaultBatchSize
    /\ url = <<>>
    /\ IdleClassifier /\ IdleArticle /\ IdleRequests /\ IdleReport

NextReport == ProcessPaper \/ ReturnDataFrame

SpecReport == InitReport /\ [][NextReport]_vars

\* ------------------------------------- one article of fetch_paper_details

InitArticle ==
    /\ pc = "parse"
    /\ article \in Articles
    /\ paper = parse_article(NoArticle)
    /\ query = <<>>
    /\ max_results = DefaultMaxResults
    /\ batch_size = DefaultBatchSize
    /\ url = <<>>
    /\ papers = <<>>
    /\ IdleClassifier /\ IdleRequests /\ IdleReport

\* the body of the loop over root.iter('PubmedArticle')
ParseArticle ==
    /\ pc = "parse"
    /\ paper' = parse_article(article)
    /\ pc' = "parsed"
    /\ UNCHANGED <<classifierVars, inputVars, url, article, requestVars,
                   papers, reportVars>>

NextArticle == ParseArticle

SpecArticle == InitArticle /\ [][NextArticle]_vars

\* ----------------------------------------------- the search URL on its own

InitQuery ==
    /\ pc = "mkquery"
    /\ query \in Queries
    /\ max_results \in {1, DefaultMaxResults}
    /\ batch_size = DefaultBatchSize
    /\ url = <<>>
    /\ papers = <<>>
    /\ IdleClassifier /\ IdleArticle /\ IdleRequests /\ IdleReport

\* the URL fetch_paper_ids hands to requests.get
BuildSearchUrl ==
    /\ pc = "mkquery"
    /\ url' = mkquery(BASEURL_SRCH, search_params(query, max_results))
    /\ pc' = "url_built"
    /\ UNCHANGED <<classifierVars, inputVars, articleVars, requestVars,
                   papers, reportVars>>

NextQuery == BuildSearchUrl

SpecQuery == InitQuery /\ [][NextQuery]_vars

\* --------------------------------------------- the classifier on its own

InitClassify ==
    /\ pc = "classify"
    /\ affiliation \in ClassifierInputs
    /\ is_academic = FALSE
    /\ query = <<>>
    /\ max_results = DefaultMaxResults
    /\ batch_size = DefaultBatchSize
    /\ url = <<>>
    /\ papers = <<>>
    /\ IdleArticle /\ IdleRequests /\ IdleReport

\* a call check_academic(affiliation)
CheckAcademic ==
    /\ pc = "classify"
    /\ is_academic' = check_academic(affiliation)
    /\ pc' = "classified"
    /\ UNCHANGED <<affiliation, inputVars, url, articleVars, requestVars,
                   papers, reportVars>>

NextClassify == CheckAcademic

SpecClassify == InitClassify /\ [][NextClassify]_vars

\* ------------------------------------------------------------ claims C1, C2

\* the positions of s where a word ends: the next character is whitespace or
\* there is none
WordEnds(s) ==
    { j \in 1..Len(s) :
        s[j] \notin whitespace /\ (j = Len(s) \/ s[j + 1] \in whitespace) }

\* the positions of s where a word starts
WordStarts(s) ==
    { i \in 1..Len(s) :
        s[i] \notin whitespace /\ (i = 1 \/ s[i - 1] \in whitespace) }

\* the words of s: its maximal runs of characters that are not whitespace
RawTokens(s) ==
    { SubSeq(s, i, CHOOSE j \in WordEnds(s) :
                      j >= i /\ \A k \in WordEnds(s) : k >= i => j <= k) :
        i \in WordStarts(s) }

UpperOf(c) ==
    IF \E i \in 1..Len(ascii_lowercase) : ascii_lowercase[i] = c
    THEN ascii_uppercase[CHOOSE i \in 1..Len(ascii_lowercase) : ascii_lowercase[i] = c]
    ELSE c

\* w is keyword k once its punctuation is deleted and its case ignored
IsKeyword(w, k) ==
    LET kept == SelectSeq(w, LAMBDA c : c \notin punctuation)
    IN /\ Len(kept) = Len(k)
       /\ \A i \in 1..Len(k) : kept[i] \in {k[i], UpperOf(k[i])}

HasKeywordToken(s) ==
    \E w \in RawTokens(s) : \E k \in academic_keywords : IsKeyword(w, k)

\* C1: check_academic returns a boolean for every affiliation, true exactly
\* when one of the whitespace-separated words of the affiliation, punctuation
\* deleted and lower-cased, is one of the six keywords; a keyword inside a
\* longer word does not count; "" and "Laboratory of Genomics" give false,
\* "Dept. of Biology, Lab 4" gives true.
C1_WholeTokenMatch ==
    pc = "classified" =>
        /\ is_academic \in BOOLEAN
        /\ is_academic = HasKeywordToken(affiliation)
        /\ affiliation = EmptyString => is_academic = FALSE
        /\ affiliation = LaboratoryOfGenomics => is_academic = FALSE
        /\ affiliation = DeptOfBiologyLab4 => is_academic = TRUE

C1_Witness ==
    /\ pc = "classified"
    /\ affiliation = DeptOfBiologyLab4
    /\ is_academic = TRUE

RECURSIVE KeywordsAndPunctuation(_, _, _)
\* s is keywords in any letter case with punctuation or whitespace between
\* and around them; seen: a keyword was read, sep: a keyword may start here
KeywordsAndPunctuation(s, seen, sep) ==
    IF s = <<>> THEN seen
    ELSE \/ /\ Head(s) \in punctuation \cup whitespace
            /\ KeywordsAndPunctuation(Tail(s), seen, TRUE)
         \/ /\ sep
            /\ \E k \in academic_keywords :
                 /\ Len(k) <= Len(s)
                 /\ \A i \in 1..Len(k) : s[i] \in {k[i], UpperOf(k[i])}
                 /\ KeywordsAndPunctuation(SubSeq(s, Len(k) + 1, Len(s)), TRUE, FALSE)

\* C2 as stated: an affiliation made only of keywords, in any case, with
\* punctuation between or around them, is academic; one with no keyword
\* token is not.
C2_AsStated ==
    pc = "classified" =>
        /\ KeywordsAndPunctuation(affiliation, FALSE, TRUE) => is_academic = TRUE
        /\ ~HasKeywordToken(affiliation) => is_academic = FALSE

\* every word of s is a keyword or nothing once its punctuation is deleted
\* and its case ignored, and one of them is a keyword
KeywordWordsOnly(s) ==
    /\ \A w \in RawTokens(s) :
          \/ \A i \in 1..Len(w) : w[i] \in punctuation
          \/ \E k \in academic_keywords : IsKeyword(w, k)
    /\ HasKeywordToken(s)

\* C2 amended: an affiliation whose whitespace-separated words are each a
\* keyword in any case with punctuation in or around it (or punctuation
\* alone), at least one a keyword, is academic; one with no keyword token is
\* not.
C2_KeywordWords ==
    pc = "classified" =>
        /\ KeywordWordsOnly(affiliation) => is_academic = TRUE
        /\ ~HasKeywordToken(affiliation) => is_academic = FALSE

C2_Witness ==
    /\ pc = "classified"
    /\ affiliation = <<".">> \o <<"L", "a", "b">> \o <<",">>
    /\ is_academic = TRUE

\* ------------------------------------------------------------ claims C3, C4

\* the positions of record p that pair an author with an affiliation having
\* no keyword token
NonAcademicPositions(p) ==
    { i \in 1..Len(p.Authors) :
        i <= Len(p.Affiliations) /\ ~HasKeywordToken(p.Affiliations[i]) }

\* C3: process_papers gives one row per record, in the records' order, with
\* the record's id, title and year; a record without non-academic authors
\* still gets its row, and the two joined fields of that row are "".
C3_OneRowPerRecord ==
    /\ Len(rows) <= Len(papers)
    /\ \A i \in 1..Len(rows) :
          /\ rows[i].PubmedID = papers[i].PubmedID
          /\ rows[i].Title = papers[i].Title
          /\ rows[i].Publication_Date = papers[i].PublicationDate
          /\ NonAcademicPositions(papers[i]) = {} =>
                /\ rows[i].Non_academic_Authors = <<>>
                /\ rows[i].Company_Affiliations = <<>>
    /\ pc = "done" => df = rows /\ Len(df) = Len(papers)

C3_Witness ==
    /\ pc = "done"
    /\ Len(df) = 2
    /\ df[1].PubmedID # df[2].PubmedID
    /\ papers[2].Authors # <<>>
    /\ papers[2].Affiliations # <<>>
    /\ df[2].Non_academic_Authors = <<>>

\* how many of the positions in S are at or before i
Rank(S, i) == Cardinality({ j \in S : j <= i })

\* C4: the authors and affiliations collected for a record are the pairs at
\* the positions whose affiliation check_academic rejects, taken in lock-step
\* and in their order, so the two lists are equally long and the row holds
\* them joined; Jane Doe (Pfizer Inc.) and John Roe (MIT University) give
\* Jane Doe with Pfizer Inc. alone.
C4_NonAcademicPairs ==
    (pc \in {"process", "done"} /\ Len(rows) >= 1) =>
        LET p == papers[Len(rows)]
            S == NonAcademicPositions(p)
        IN /\ Len(non_academic_authors) = Len(affiliations)
           /\ Len(non_academic_authors) = Cardinality(S)
           /\ \A i \in S :
                 /\ non_academic_authors[Rank(S, i)] = p.Authors[i]
                 /\ affiliations[Rank(S, i)] = p.Affiliations[i]
           /\ rows[Len(rows)].Non_academic_Authors
                = join(<<";", " ">>, non_academic_authors)
           /\ rows[Len(rows)].Company_Affiliations
                = join(<<";", " ">>, affiliations)
           /\ p = JaneAndJohnPaper =>
                 /\ non_academic_authors = <<JaneDoe>>
                 /\ affiliations = <<PfizerInc>>

C4_Witness ==
    /\ pc = "done"
    /\ papers = <<ThreeAuthorsPaper, JaneAndJohnPaper>>
    /\ non_academic_authors = <<JaneDoe>>
    /\ affiliations = <<PfizerInc>>
    /\ Len(df) = 2

\* ------------------------------------------------------------ claims C5, C9

NotBlank(text) ==
    text # None /\ \E i \in 1..Len(text) : text[i] \notin whitespace

\* the Author element has a name and an affiliation that are not empty once
\* trimmed
NamedAndAffiliated(author) ==
    /\ \/ (author.ForeName # <<>> /\ NotBlank(Head(author.ForeName)))
       \/ (author.LastName # <<>> /\ NotBlank(Head(author.LastName)))
    /\ author.Affiliation # <<>>
    /\ NotBlank(Head(author.Affiliation))

\* C5: Authors and Affiliations of a record are equally long and aligned, and
\* hold the Author elements whose name and affiliation are both non-empty
\* after trimming; an element whose affiliation is missing, empty or blank,
\* or whose name is empty, is left out.
C5_AsStated ==
    pc = "parsed" =>
        LET kept == SelectSeq(article.Author, NamedAndAffiliated)
        IN /\ Len(paper.Authors) = Len(paper.Affiliations)
           /\ Len(paper.Authors) = Len(kept)
           /\ \A i \in 1..Len(kept) :
                 paper.Affiliations[i] = Head(kept[i].Affiliation)

\* the text of the first element of the list, "" when there is none
TextOrEmpty(elems) ==
    IF elems = <<>> \/ Head(elems) = None THEN <<>> ELSE Head(elems)

\* C9: every article of a well-formed response gives a record; an absent id,
\* title or year is the empty string in it, and the year is the text of the
\* first PubDate/Year element.
C9_AsStated ==
    pc = "parsed" =>
        /\ paper.PubmedID = TextOrEmpty(article.PMID)
        /\ paper.Title = TextOrEmpty(article.ArticleTitle)
        /\ paper.PublicationDate = TextOrEmpty(article.Year)

\* ------------------------------------------------------- claims C6, C7, C10

StartsWith(u, b) == Len(b) <= Len(u) /\ SubSeq(u, 1, Len(b)) = b

\* a response with a 2xx status and a well-formed body
Succeeded2xx(r) ==
    r.connected /\ r.status_code >= 200 /\ r.status_code < 300 /\ r.wellformed

\* a response with a status that is no 4xx or 5xx and a well-formed body
SucceededNoError(r) ==
    r.connected /\ ~(r.status_code >= 400 /\ r.status_code < 600) /\ r.wellformed

\* the order of search, fetch and report, with ok telling a response that
\* did not fail
EventOrder(ok(_)) ==
    /\ Len(requests) <= 2
    /\ Len(requests) >= 1 => StartsWith(requests[1], BASEURL_SRCH \o <<"?">>)
    /\ Len(requests) = 2 =>
          /\ StartsWith(requests[2], BASEURL_FTCH \o <<"?">>)
          /\ ok(srch_resp)
    /\ pc = "start" <=> requests = <<>>
    /\ pc = "searched" => Len(requests) = 1 /\ ok(srch_resp)
    /\ pc \in {"process", "done"} =>
          Len(requests) = 2 /\ ok(srch_resp) /\ ok(ftch_resp)
    /\ (Len(requests) = 1 /\ ~ok(srch_resp)) \/ (Len(requests) = 2 /\ ~ok(ftch_resp))
          => /\ pc = "failed"
             /\ error # "none"
             /\ rows = <<>>
             /\ df = <<>>
    /\ pc = "failed" => ~ENABLED Next
    /\ pc # "failed" => error = "none"

C7_AsStated ==
    (pc = "searched" /\ srch_resp.root.Id = <<>>) =>
        /\ ids = <<>>
        /\ query_key # None
        /\ web_env # None

\* ---- the host's reading of a request URL

RECURSIVE SplitOn(_, _)
\* the pieces of s between the occurrences of character c
SplitOn(s, c) ==
    IF \E i \in 1..Len(s) : s[i] = c
    THEN LET i == CHOOSE k \in 1..Len(s) :
                    s[k] = c /\ \A j \in 1..(k - 1) : s[j] # c
         IN <<SubSeq(s, 1, i - 1)>> \o SplitOn(SubSeq(s, i + 1, Len(s)), c)
    ELSE <<s>>

\* s up to its first c
Before(s, c) == Head(SplitOn(s, c))

\* s after its first c, "" when it has none
After(s, c) ==
    IF \E i \in 1..Len(s) : s[i] = c
    THEN SubSeq(s, Len(Before(s, c)) + 2, Len(s))
    ELSE <<>>

\* the (name, value) pairs of the query part of u: the fragment is cut off,
\* the fields are split at "&" and each at its first "="
DecodeQuery(u) ==
    LET fields == SelectSeq(SplitOn(After(Before(u, "#"), "?"), "&"),
                            LAMBDA f : f # <<>>)
    IN [i \in 1..Len(fields) |->
          <<Before(fields[i], "="), After(fields[i], "=")>>]

\* the values the URL gives parameter name
ParamValues(u, name) ==
    LET kv == DecodeQuery(u)
    IN { kv[i][2] : i \in { j \in 1..Len(kv) : kv[j][1] = name } }

RECURSIVE ParseNat(_)
\* the number a string of digits writes
ParseNat(s) ==
    IF s = <<>> THEN 0
    ELSE 10 * ParseNat(SubSeq(s, 1, Len(s) - 1))
         + (CHOOSE d \in 0..9 : digits[d + 1] = s[Len(s)])

\* C10 as stated: fetch_paper_details issues one request with max-results
\* batch_size and returns at most batch_size records, whatever the search
\* handle and the response.
C10_AsStated ==
    pc \in {"process", "done"} =>
        /\ Len(requests) = 2
        /\ ParamValues(requests[2], <<"r", "e", "t", "m", "a", "x">>)
             = {str(batch_size)}
        /\ Len(papers) <= batch_size

\* C10 amended: fetch_paper_details issues one request with max-results
\* batch_size and returns one record per article of the response, in order,
\* hence at most batch_size records when the response holds at most
\* batch_size articles; the identifiers of the search play no part.
C10_OneRecordPerArticle ==
    pc \in {"process", "done"} =>
        /\ Len(requests) = 2
        /\ \E v \in ParamValues(requests[2], <<"r", "e", "t", "m", "a", "x">>) :
              /\ ParamValues(requests[2], <<"r", "e", "t", "m", "a", "x">>) = {v}
              /\ ParseNat(v) = batch_size
        /\ Len(papers) = Len(ftch_resp.root)
        /\ \A i \in 1..Len(papers) :
              (ftch_resp.root[i].PMID # <<>> /\ Head(ftch_resp.root[i].PMID) # None)
                 => papers[i].PubmedID = Head(ftch_resp.root[i].PMID)
        /\ Len(ftch_resp.root) <= batch_size => Len(papers) <= batch_size

C10_Witness ==
    /\ pc = "process"
    /\ ids = <<>>
    /\ batch_size = DefaultBatchSize
    /\ Len(papers) = 2
    /\ papers[1].PubmedID # papers[2].PubmedID

\* ---------------------------------------------------------------- claim C8

\* C8: the search URL carries its parameters URL-encoded: decoding its query
\* part gives db, term, retmax and usehistory and nothing else, term being
\* the whole query text, whatever characters the query holds.
C8_AsStated ==
    pc = "url_built" =>
        DecodeQuery(url)
          = << <<<<"d", "b">>, <<"p", "u", "b", "m", "e", "d">>>>,
               <<<<"t", "e", "r", "m">>, query>>,
               <<<<"r", "e", "t", "m", "a", "x">>, str(max_results)>>,
               <<<<"u", "s", "e", "h", "i", "s", "t", "o", "r", "y">>, <<"y">>>> >>

====
